---- MODULE Spec2Model ----
(***************************************************************************)
(* doc-triager: the per-file triage pipeline (pipeline.py) with the        *)
(* functions it calls: checksum.py, database.py, extractor.py, triage.py,  *)
(* llm.py (dispatch only) and mover.py.                                    *)
(*                                                                         *)
(* Texts are sequences of one-character strings.  Confidence values and    *)
(* the confidence threshold are counted in tenths (7 stands for 0.7).      *)
(* Paths of source files are kept relative to cfg.input.directory; a file  *)
(* of the output tree is <<category directory, relative path, n>> where n  *)
(* is the numeric collision suffix (0: the plain name).                    *)
(***************************************************************************)
EXTENDS Integers, Sequences, FiniteSets, TLC

\* ------------------------------------------------------------------------
\* Bounds of the model
\* ------------------------------------------------------------------------

\* process_files calls in a behaviour of Spec
MaxRuns == 2

\* process_files calls in a behaviour of SpecDedup
MaxDedupRuns == 3

\* length of the long text the converter may return
LongLen == 26

\* cfg.triage.max_input_tokens of the configurations (the default is 8000)
MaxInputTokens == 24

\* cfg.text_extraction.min_text_length of the configurations (default 100)
MinTextLength == 2

\* ------------------------------------------------------------------------
\* Values
\* ------------------------------------------------------------------------

None == "None"

\* source files, relative to cfg.input.directory, in scan order
Paths == <<"a.txt", "d/b.txt">>

PathSet == {Paths[i] : i \in DOMAIN Paths}

Contents == {"A", "B"}

\* the content of a path where no file is
NoFile == "NoFile"

Categories == {"evergreen", "temporal", "unknown"}

\* "\n\n[...truncated...]\n\n"
_TRUNCATE_MARKER ==
    <<"\n", "\n", "[", ".", ".", ".", "t", "r", "u", "n", "c", "a", "t", "e", "d",
      ".", ".", ".", "]", "\n", "\n">>

\* ------------------------------------------------------------------------
\* Python helpers
\* ------------------------------------------------------------------------

Min(a, b) == IF a < b THEN a ELSE b

Max(a, b) == IF a > b THEN a ELSE b

\* a Python slice index (negative counts from the end), clamped to 0..n
PyIndex(i, n) == IF i < 0 THEN Max(n + i, 0) ELSE Min(i, n)

\* s[lo:hi] of Python, with lo, hi already 0-based Python indices
PySlice(s, lo, hi) ==
    LET a == PyIndex(lo, Len(s))
        b == PyIndex(hi, Len(s))
    IN  IF a >= b THEN << >> ELSE SubSeq(s, a + 1, b)

IsSpace(ch) == ch \in {" ", "\n"}

RECURSIVE LStrip(_)
LStrip(s) == IF s # << >> /\ IsSpace(Head(s)) THEN LStrip(Tail(s)) ELSE s

RECURSIVE RStrip(_)
RStrip(s) ==
    IF s # << >> /\ IsSpace(s[Len(s)]) THEN RStrip(SubSeq(s, 1, Len(s) - 1)) ELSE s

\* str.strip()
Strip(s) == RStrip(LStrip(s))

\* the truth value of x, a str or None, in "if x:"
Truthy(x) == x # None /\ x # ""

\* ------------------------------------------------------------------------
\* checksum.py, database.py
\* ------------------------------------------------------------------------

\* SHA-256 of the file's bytes: a function of the content alone
compute_checksum(content) == <<"sha256", content>>

\* the rows of the table with the given source_path, in rowid order
RowsOf(rows, source_path) ==
    SelectSeq(rows, LAMBDA r : r.source_path = source_path)

\* SELECT * ... WHERE source_path = ? and fetchone(): the first row in rowid
\* order, that is the oldest record of the path.  The result is << >> for
\* None and <<row>> otherwise.
get_by_source_path(rows, source_path) ==
    LET m == RowsOf(rows, source_path)
    IN  IF m = << >> THEN << >> ELSE <<m[1]>>

is_processed(rows, source_path, content) ==
    LET record == get_by_source_path(rows, source_path)
    IN  IF record = << >>
        THEN FALSE
        ELSE record[1].checksum = compute_checksum(content)

\* mutant: the record replaces the earlier records of its path
insert_result_upsert(rows, record) ==
    Append(SelectSeq(rows, LAMBDA r : r.source_path # record.source_path), record)

insert_result(rows, record) == Append(rows, record)

\* ------------------------------------------------------------------------
\* extractor.py
\* ------------------------------------------------------------------------

ExtractionResult(text, insufficient, error) ==
    [text |-> text, insufficient |-> insufficient, error |-> error]

\* conv is what MarkItDown().convert(file_path) does: it raises, or it
\* returns the markdown text.  The debug mirror file is not modelled.
extract_text(conv, min_text_length) ==
    IF conv.raises
    THEN ExtractionResult(<< >>, FALSE, "convert failed")
    ELSE IF conv.text = << >> \/ Len(Strip(conv.text)) < min_text_length
         THEN ExtractionResult(conv.text, TRUE, None)
         ELSE ExtractionResult(conv.text, FALSE, None)

TruncateResult(text, truncated) == [text |-> text, truncated |-> truncated]

\* mutant: a text of exactly max_length characters is truncated too
truncate_text_strict(text, max_length) ==
    IF Len(text) < max_length
    THEN TruncateResult(text, FALSE)
    ELSE LET marker_len == Len(_TRUNCATE_MARKER)
             available  == max_length - marker_len
             head_len   == (available * 2) \div 3
             tail_len   == available - head_len
         IN  TruncateResult(
                 PySlice(text, 0, head_len) \o _TRUNCATE_MARKER
                     \o PySlice(text, 0 - tail_len, Len(text)),
                 TRUE)

truncate_text(text, max_length) ==
    IF Len(text) <= max_length
    THEN TruncateResult(text, FALSE)
    ELSE LET marker_len == Len(_TRUNCATE_MARKER)
             available  == max_length - marker_len
             head_len   == (available * 2) \div 3
             tail_len   == available - head_len
         IN  TruncateResult(
                 PySlice(text, 0, head_len) \o _TRUNCATE_MARKER
                     \o PySlice(text, 0 - tail_len, Len(text)),
                 TRUE)

\* ------------------------------------------------------------------------
\* llm.py and the dispatch of triage.py
\* ------------------------------------------------------------------------

\* What a backend does with one request: it raises (raises # None) or it
\* returns the raw text.
BackendReply(raises, raw) == [raises |-> raises, raw |-> raw]

\* The outcome of _call_llm: the exception it raised (or None), the raw text
\* it returned, and the backend function that was actually executed.
LlmCall(raised, raw, backend) == [raised |-> raised, raw |-> raw, backend |-> backend]

\* call_claude(prompt, model, timeout) takes no file_path parameter
CallClaudeParams == {"prompt", "model", "timeout"}

_call_llm(mode, provider, file_path, reply) ==
    IF mode = "cli"
    THEN IF provider \notin {"claude", "codex"}
         THEN LlmCall("ValueError", << >>, None)
         ELSE LET kwargs == {"prompt", "model", "timeout"}
                      \cup (IF provider = "claude" /\ file_path # None
                            THEN {"file_path"} ELSE {})
                  params == IF provider = "claude"
                            THEN CallClaudeParams
                            ELSE {"prompt", "model", "timeout"}
              IN  IF ~(kwargs \subseteq params)
                  THEN LlmCall("TypeError", << >>, None)
                  ELSE LlmCall(reply.raises, reply.raw, "call_" \o provider)
    ELSE LlmCall(reply.raises, reply.raw, "call_api")

SummaryResult(summary, error) == [summary |-> summary, error |-> error]

\* mutant: a failed summary is returned empty
summarize_text_no_fallback(text, mode, provider, reply) ==
    LET c == _call_llm(mode, provider, None, reply)
    IN  [call   |-> c,
         result |-> IF c.raised # None
                    THEN SummaryResult(<< >>, c.raised)
                    ELSE IF c.raw = << >> \/ Strip(c.raw) = << >>
                         THEN SummaryResult(<< >>, "empty summary response")
                         ELSE SummaryResult(Strip(c.raw), None)]

\* summarize_text: the result and the _call_llm outcome it rests on
summarize_text(text, mode, provider, reply) ==
    LET c == _call_llm(mode, provider, None, reply)
    IN  [call   |-> c,
         result |-> IF c.raised # None
                    THEN SummaryResult(text, c.raised)
                    ELSE IF c.raw = << >> \/ Strip(c.raw) = << >>
                         THEN SummaryResult(text, "empty summary response")
                         ELSE SummaryResult(Strip(c.raw), None)]

\* ------------------------------------------------------------------------
\* triage.py: response parsing, classification, threshold
\* ------------------------------------------------------------------------

\* A raw classification response is a sequence of tokens: a code fence
\* (``` or ```json), white space, a JSON object, another JSON value, or text
\* that is not JSON.  A JSON object carries its classification and confidence
\* members; has_* tells whether the member is present, and conf_numeric
\* whether float() accepts the confidence.
Token(t) ==
    [t |-> t, has_classification |-> FALSE, classification |-> "",
     has_confidence |-> FALSE, conf_numeric |-> FALSE, confidence |-> 0,
     has_reason |-> FALSE]

Fence == Token("fence")

Space == Token("space")

NotJson == Token("text")

JsonArray == Token("array")

JsonObject(classification, confidence) ==
    [t |-> "object", has_classification |-> TRUE, classification |-> classification,
     has_confidence |-> TRUE, conf_numeric |-> TRUE, confidence |-> confidence,
     has_reason |-> TRUE]

\* {} : every member absent
EmptyObject == Token("object")

\* {"classification": c, "confidence": "high"}
BadConfidence(classification) ==
    [JsonObject(classification, 0) EXCEPT !.conf_numeric = FALSE]

StripTokens(toks) ==
    LET RECURSIVE L(_), R(_)
        L(s) == IF s # << >> /\ Head(s).t = "space" THEN L(Tail(s)) ELSE s
        R(s) == IF s # << >> /\ s[Len(s)].t = "space"
                THEN R(SubSeq(s, 1, Len(s) - 1)) ELSE s
    IN  R(L(toks))

\* re.search(r"```(?:json)?\s*\n?(.*?)\n?\s*```", text, re.DOTALL): the text
\* between the first fence and the next one, stripped; else the stripped text
_extract_json(text) ==
    LET fences == {i \in DOMAIN text : text[i].t = "fence"}
    IN  IF Cardinality(fences) >= 2
        THEN LET i == CHOOSE x \in fences : \A y \in fences : x <= y
                 j == CHOOSE x \in fences \ {i} : \A y \in fences \ {i} : x <= y
             IN  StripTokens(SubSeq(text, i + 1, j - 1))
        ELSE StripTokens(text)

\* json.loads accepts exactly one JSON value
JsonLoads(json_str) ==
    IF Len(json_str) = 1 /\ json_str[1].t \in {"object", "array"}
    THEN [ok |-> TRUE, data |-> json_str[1]]
    ELSE [ok |-> FALSE, data |-> NotJson]

\* raw_response is << >> for None and <<raw>> otherwise
TriageResult(triage, confidence, reason, topics, error, raw_response) ==
    [triage |-> triage, confidence |-> confidence, reason |-> reason,
     topics |-> topics, error |-> error, raw_response |-> raw_response]

\* mutant: the error result carries a decision
ErrorResult_decided(error) == TriageResult("evergreen", 9, "", << >>, error, << >>)

\* TriageResult(error=...): every other field at its default
ErrorResult(error) == TriageResult("unknown", 0, "", << >>, error, << >>)

\* The outcome of a function that may raise: raised is the exception (or
\* None) and value the returned TriageResult.
Outcome(raised, value) == [raised |-> raised, value |-> value]

_parse_response(raw) ==
    LET loaded == JsonLoads(_extract_json(raw))
        data   == loaded.data
    IN  IF ~loaded.ok
        THEN Outcome(None,
                 TriageResult("unknown", 0, "", << >>, "JSON parse failed", <<raw>>))
        ELSE IF data.t # "object"
        THEN Outcome("AttributeError", ErrorResult(None))
        ELSE IF data.has_confidence /\ ~data.conf_numeric
        THEN Outcome("ValueError", ErrorResult(None))
        ELSE Outcome(None,
                 TriageResult(
                     IF data.has_classification THEN data.classification ELSE "unknown",
                     IF data.has_confidence THEN data.confidence ELSE 0,
                     IF data.has_reason THEN "model reason" ELSE "",
                     IF data.has_reason THEN <<"topic">> ELSE << >>,
                     None, << >>))

build_classify_prompt(text, truncated, file_path) ==
    IF file_path # None
    THEN [template |-> "classify_file.txt", text |-> << >>, truncated |-> FALSE]
    ELSE [template |-> "classify.txt", text |-> text, truncated |-> truncated]

\* mutant: only the exceptions named in the except clauses are caught
classify_document_named_only(text, truncated, mode, provider, file_path, reply) ==
    LET prompt == build_classify_prompt(text, truncated, file_path)
        c      == _call_llm(mode, provider, file_path, reply)
    IN  [call   |-> c,
         prompt |-> prompt,
         outcome |->
            CASE c.raised = None -> _parse_response(c.raw)
              [] c.raised = "ValueError" ->
                    Outcome(None, ErrorResult("unsupported CLI provider"))
              [] c.raised = "FileNotFoundError" ->
                    Outcome(None, ErrorResult("CLI command not found"))
              [] c.raised = "TimeoutExpired" ->
                    Outcome(None, ErrorResult("CLI timed out"))
              [] OTHER -> Outcome(c.raised, ErrorResult(None))]

\* classify_document: the outcome, the prompt sent and the _call_llm outcome
classify_document(text, truncated, mode, provider, file_path, reply) ==
    LET prompt == build_classify_prompt(text, truncated, file_path)
        c      == _call_llm(mode, provider, file_path, reply)
    IN  [call   |-> c,
         prompt |-> prompt,
         outcome |->
            CASE c.raised = None -> _parse_response(c.raw)
              [] c.raised = "ValueError" ->
                    Outcome(None, ErrorResult("unsupported CLI provider"))
              [] c.raised = "FileNotFoundError" ->
                    Outcome(None, ErrorResult("CLI command not found"))
              [] c.raised = "TimeoutExpired" ->
                    Outcome(None, ErrorResult("CLI timed out"))
              [] OTHER -> Outcome(None, ErrorResult(c.raised))]

\* mutant: the threshold gate is missing
apply_threshold_off(result, threshold) == result

\* mutant: the demotion also zeroes the confidence
apply_threshold_zeroing(result, threshold) ==
    IF result.error # None
    THEN result
    ELSE IF result.confidence < threshold /\ result.triage # "unknown"
         THEN [result EXCEPT !.triage = "unknown", !.confidence = 0]
         ELSE result

\* mutant: a confidence equal to the threshold is demoted too
apply_threshold_inclusive(result, threshold) ==
    IF result.error # None
    THEN result
    ELSE IF result.confidence <= threshold /\ result.triage # "unknown"
         THEN [result EXCEPT !.triage = "unknown"]
         ELSE result

apply_threshold(result, threshold) ==
    IF result.error # None
    THEN result
    ELSE IF result.confidence < threshold /\ result.triage # "unknown"
         THEN [result EXCEPT !.triage = "unknown"]
         ELSE result

\* ------------------------------------------------------------------------
\* mover.py
\* ------------------------------------------------------------------------

\* a file of the output tree: output_dir / category / relative, with the
\* numeric suffix n before the extension (n = 0: no suffix)
Dest(category, relative, n) == <<category, relative, n>>

\* destination_path = None
NoDest == << >>

\* existing is the set of files of the output tree
RECURSIVE ResolveFrom(_, _, _)
ResolveFrom(dest, counter, existing) ==
    LET candidate == Dest(dest[1], dest[2], counter)
    IN  IF candidate \notin existing
        THEN candidate
        ELSE ResolveFrom(dest, counter + 1, existing)

\* mutant: the destination is taken as it is
_resolve_destination_overwrite(dest, existing) == dest

\* mutant: the suffix is counted on from the highest sibling
_resolve_destination_above_highest(dest, existing) ==
    IF dest \notin existing
    THEN dest
    ELSE LET siblings == {d \in existing : d[1] = dest[1] /\ d[2] = dest[2]}
             top == CHOOSE d \in siblings : \A x \in siblings : x[3] <= d[3]
         IN  ResolveFrom(dest, top[3] + 1, existing)

_resolve_destination(dest, existing) ==
    IF dest \notin existing THEN dest ELSE ResolveFrom(dest, 1, existing)

\* move_file: io is what the file system does during the call ("ok", or
\* "vanished": the source is gone when move_file looks, or "oserror": mkdir
\* or shutil.move fails).  tree maps each file of the output tree to its
\* content.
move_file(relative, content, tree, triage, io) ==
    IF io = "vanished"
    THEN [raised |-> "FileNotFoundError", dest |-> NoDest, tree |-> tree,
          source |-> NoFile]
    ELSE LET dest == _resolve_destination(Dest(triage, relative, 0), DOMAIN tree)
         IN  IF io = "oserror"
             THEN [raised |-> "OSError", dest |-> NoDest, tree |-> tree,
                   source |-> content]
             ELSE [raised |-> None, dest |-> dest,
                   tree |-> (dest :> content) @@ tree, source |-> NoFile]

\* ------------------------------------------------------------------------
\* pipeline.py
\* ------------------------------------------------------------------------

\* mutant: every CLI provider is taken for file-direct
_is_file_direct_mode_any_cli(c) == c.mode = "cli"

_is_file_direct_mode(c) == c.mode = "cli" /\ c.provider = "claude"

\* One entry of the call log of a process_file call: the function called,
\* a note (the prompt template of an LLM call, the outcome of extract_text),
\* the text handed over and, for _call_llm, the raw text it returned.
Event(fn, note, text) == [fn |-> fn, note |-> note, text |-> text, raw |-> << >>]

\* the levels of the logger of pipeline.py
LoggerFns == {"logger.info", "logger.warning", "logger.error"}

\* a line process_file writes with its logger: the level and the message
LogLine(level, message) == Event("logger." \o level, message, << >>)

\* the log entries of one _call_llm call: the dispatch with the exception it
\* ended in (or None), then the backend function if one was executed
BackendEvents(c, template, text) ==
    <<[Event("_call_llm", c.raised, text) EXCEPT !.raw = c.raw]>>
      \o (IF c.backend = None THEN << >> ELSE <<Event(c.backend, template, text)>>)

\* the dict process_file returns; a key the dict lacks reads None (0, << >>)
Result(triage, confidence, skipped, error, destination_path) ==
    [triage |-> triage, confidence |-> confidence, skipped |-> skipped,
     error |-> error, destination_path |-> destination_path]

_record_result(rows, c, file_path, checksum, triage, confidence, reason, extracted_text_length, truncated, error_message, destination_path) ==
    insert_result(rows,
        [source_path |-> file_path, destination_path |-> destination_path,
         checksum |-> checksum, triage |-> triage, confidence |-> confidence,
         reason |-> reason, llm_provider |-> c.provider,
         extracted_text_length |-> extracted_text_length,
         truncated |-> truncated, error_message |-> error_message])

\* What one process_file call does: the exception it raises (or None), the
\* dict it returns, the table, the source file and the output tree it leaves,
\* and the log of the calls it made.
Effect(raised, result, rows, content, tree, log) ==
    [raised |-> raised, result |-> result, rows |-> rows, content |-> content,
     tree |-> tree, log |-> log]

\* mutant: the dry-run flag is not looked at
ShouldMove_always(dry_run) == TRUE

\* pipeline.py:193, "if not dry_run:"
ShouldMove(dry_run) == ~dry_run

\* mutant: the subclasses of OSError are not caught
IsOSError_exact(exc) == exc = "OSError"

\* pipeline.py:202, "except OSError": FileNotFoundError is a subclass
IsOSError(exc) == exc \in {"OSError", "FileNotFoundError"}

\* pipeline.py:181-230, from the threshold check to the return
Commit(file_path, c, dry_run, rows, content, tree, classified, text_len, truncated, io, log) ==
    LET cls_result == apply_threshold(classified, c.confidence_threshold)
        mv == IF ShouldMove(dry_run)
              THEN move_file(file_path, content, tree, cls_result.triage, io)
              ELSE [raised |-> None, dest |-> NoDest, tree |-> tree, source |-> content]
        log2 == log \o <<LogLine("info", "classification")>>
                 \o (IF ShouldMove(dry_run)
                     THEN <<Event("move_file", cls_result.triage, << >>)>>
                            \o (IF mv.raised # None /\ IsOSError(mv.raised)
                                THEN <<LogLine("error", "file move failed")>>
                                ELSE << >>)
                     ELSE << >>)
    IN  IF mv.raised # None /\ ~IsOSError(mv.raised)
        THEN Effect(mv.raised, Result(None, 0, FALSE, None, NoDest),
                    rows, mv.source, mv.tree, log2)
        ELSE
        Effect(None,
               Result(cls_result.triage, cls_result.confidence, FALSE,
                      cls_result.error, mv.dest),
               _record_result(rows, c, file_path, compute_checksum(content),
                              cls_result.triage, cls_result.confidence,
                              cls_result.reason, text_len, truncated,
                              cls_result.error, mv.dest),
               mv.source, mv.tree,
               log2 \o <<Event("insert_result", None, << >>)>>)

\* pipeline.py:63-80, the file-direct branch
FileDirect(file_path, c, dry_run, rows, content, tree, env) ==
    LET cd == classify_document(<< >>, FALSE, c.mode, c.provider, file_path,
                                env.cls_reply)
        log == <<LogLine("info", "file-direct mode (CLI claude)"),
                 Event("classify_document", cd.prompt.template, cd.prompt.text)>>
                 \o BackendEvents(cd.call, cd.prompt.template, cd.prompt.text)
    IN  IF cd.outcome.raised # None
        THEN Effect(cd.outcome.raised, Result(None, 0, FALSE, None, NoDest),
                    rows, content, tree, log)
        ELSE Commit(file_path, c, dry_run, rows, content, tree, cd.outcome.value,
                    0, FALSE, env.io, log)

\* mutant: the summarization step runs whatever the configuration says
Summarizes_always(c) == TRUE

\* pipeline.py:147, "if cfg.text_extraction.llm_summary_enabled:"
Summarizes(c) == c.llm_summary_enabled

\* pipeline.py:141-179, truncation, the optional summary and classification.
\* The note of the summarize_text entry is the error of the SummaryResult.
Classify(file_path, c, dry_run, rows, content, tree, env, text, log) ==
    LET trunc_result == truncate_text(text, c.max_input_tokens)
        sm == summarize_text(trunc_result.text, c.mode, c.provider, env.sum_reply)
        classify_text == IF Summarizes(c)
                         THEN sm.result.summary
                         ELSE trunc_result.text
        cd == classify_document(classify_text, trunc_result.truncated, c.mode,
                                c.provider, None, env.cls_reply)
        log2 == log \o <<Event("truncate_text", None, text)>>
                 \o (IF Summarizes(c)
                     THEN <<LogLine("info", "summary step running"),
                            Event("summarize_text", sm.result.error, trunc_result.text)>>
                            \o BackendEvents(sm.call, "summary.txt", trunc_result.text)
                            \o (IF Truthy(sm.result.error)
                                THEN <<LogLine("warning", "summary failed")>>
                                ELSE <<LogLine("info", "summary done")>>)
                     ELSE << >>)
                 \o <<Event("classify_document", cd.prompt.template, cd.prompt.text)>>
                 \o BackendEvents(cd.call, cd.prompt.template, cd.prompt.text)
    IN  IF cd.outcome.raised # None
        THEN Effect(cd.outcome.raised, Result(None, 0, FALSE, None, NoDest),
                    rows, content, tree, log2)
        ELSE Commit(file_path, c, dry_run, rows, content, tree, cd.outcome.value,
                    Len(text), trunc_result.truncated, env.io, log2)

\* mutant: insufficient text does not return early
ShortCircuits_error_only(extraction) == Truthy(extraction.error)

\* pipeline.py:90 and 115, the conditions of the two early returns
ShortCircuits(extraction) == Truthy(extraction.error) \/ extraction.insufficient

\* pipeline.py:82-139, extraction and its two early returns
Extracting(file_path, c, dry_run, rows, content, tree, env) ==
    LET extraction == extract_text(env.conv, c.min_text_length)
        checksum == compute_checksum(content)
        kind == IF Truthy(extraction.error) THEN "error"
                ELSE IF extraction.insufficient THEN "insufficient" ELSE "ok"
        log == <<Event("extract_text", kind, extraction.text)>>
        rec == <<Event("insert_result", None, << >>)>>
    IN  IF ~ShortCircuits(extraction)
        THEN Classify(file_path, c, dry_run, rows, content, tree, env,
                      extraction.text, log)
        ELSE IF Truthy(extraction.error)
        THEN Effect(None, Result("unknown", 0, FALSE, extraction.error, NoDest),
                    _record_result(rows, c, file_path, checksum, "unknown", 0,
                                   "text extraction failed", 0, FALSE,
                                   extraction.error, NoDest),
                    content, tree,
                    log \o <<LogLine("warning", "extraction error")>> \o rec)
        ELSE Effect(None, Result("unknown", 0, FALSE, None, NoDest),
                    _record_result(rows, c, file_path, checksum, "unknown", 0,
                                   "insufficient text",
                                   Len(Strip(extraction.text)), FALSE, None, NoDest),
                    content, tree,
                    log \o <<LogLine("info", "insufficient text -> unknown")>> \o rec)

\* process_file(file_path, cfg, dry_run) in the state (rows, content of the
\* file, tree), where env is what the converter, the backends and the file
\* system do during the call
process_file(file_path, c, dry_run, rows, content, tree, env) ==
    IF content = NoFile
    THEN Effect("FileNotFoundError", Result(None, 0, FALSE, None, NoDest),
                rows, content, tree, << >>)
    ELSE IF is_processed(rows, file_path, content)
    THEN Effect(None, Result(None, 0, TRUE, None, NoDest), rows, content, tree,
                <<LogLine("info", "skipped (already processed)")>>)
    ELSE IF _is_file_direct_mode(c)
    THEN FileDirect(file_path, c, dry_run, rows, content, tree, env)
    ELSE Extracting(file_path, c, dry_run, rows, content, tree, env)

\* the loop body of process_files, pipeline.py:304-311
Count(summary, result) ==
    IF result.skipped
    THEN [summary EXCEPT !.skipped = @ + 1]
    ELSE IF Truthy(result.error)
    THEN [summary EXCEPT !.error = @ + 1]
    ELSE IF result.triage \in DOMAIN summary
    THEN [summary EXCEPT ![result.triage] = @ + 1]
    ELSE summary

\* pipeline.py:285-292
NewSummary(files) ==
    [total |-> Len(files), evergreen |-> 0, temporal |-> 0, unknown |-> 0,
     error |-> 0, skipped |-> 0]

\* ------------------------------------------------------------------------
\* Configurations and the environment
\* ------------------------------------------------------------------------

\* config.py:33, in tenths
ConfidenceThreshold == 7

Config(mode, provider, llm_summary_enabled) ==
    [mode |-> mode, provider |-> provider,
     llm_summary_enabled |-> llm_summary_enabled,
     confidence_threshold |-> ConfidenceThreshold,
     max_input_tokens |-> MaxInputTokens,
     min_text_length |-> MinTextLength]

Configs ==
    {Config("api", "openai", FALSE), Config("api", "openai", TRUE),
     Config("cli", "claude", FALSE), Config("cli", "codex", FALSE),
     Config("cli", "codex", TRUE), Config("cli", "gemini", FALSE),
     Config("cli", "gemini", TRUE)}

Chars(n, ch) == [i \in 1..n |-> ch]

\* what the converter may do with a file
ConvOutcomes ==
    {[raises |-> TRUE, text |-> << >>],
     [raises |-> FALSE, text |-> <<" ", "x", " ">>],
     [raises |-> FALSE, text |-> <<"x", "y", "z">>],
     [raises |-> FALSE, text |-> <<"h">> \o Chars(LongLen - 2, "x") \o <<"t">>]}

\* what a backend may do with a summarization request
SumReplies ==
    {BackendReply("RuntimeError", << >>), BackendReply(None, <<" ", "\n">>),
     BackendReply(None, <<" ", "s", " ">>)}

\* the classification member of the responses of the model
Classifications == Categories \cup {"other"}

\* raw classification responses
RawResponses ==
    {<<JsonObject(k, 9)>> : k \in Classifications}
      \cup {<<JsonObject("evergreen", 3)>>,
            <<Fence, JsonObject("temporal", 7), Space, Fence>>,
            <<NotJson>>, <<JsonArray>>, <<BadConfidence("evergreen")>>,
            <<EmptyObject>>}

\* what a backend may do with a classification request
ClsReplies ==
    {BackendReply(e, << >>) : e \in {"FileNotFoundError", "TimeoutExpired",
                                     "RuntimeError"}}
      \cup {BackendReply(None, raw) : raw \in RawResponses}

\* what the environment does during one process_file call
Env(conv, sum_reply, cls_reply, io) ==
    [conv |-> conv, sum_reply |-> sum_reply, cls_reply |-> cls_reply, io |-> io]

\* the converter returns a short sufficient text
ConvOk == [raises |-> FALSE, text |-> <<"x", "y", "z">>]

SumOk == BackendReply(None, <<" ", "s", " ">>)

ClsOk == BackendReply(None, <<JsonObject("evergreen", 9)>>)

\* the environments of Spec: each of the converter, the summarization
\* backend, the classification backend and the file system varies while the
\* others behave
Envs ==
    {Env(conv, SumOk, ClsOk, "ok") : conv \in ConvOutcomes}
      \cup {Env(ConvOk, s, ClsOk, "ok") : s \in SumReplies}
      \cup {Env(ConvOk, SumOk, r, "ok") : r \in ClsReplies}
      \cup {Env(ConvOk, SumOk, ClsOk, io) : io \in {"vanished", "oserror"}}

\* the environments of SpecDedup: one for each kind of outcome
QuietEnvs ==
    {Env(conv, SumOk, ClsOk, "ok") : conv \in ConvOutcomes \ {ConvOk}}
      \cup {Env(ConvOk, SumOk, ClsOk, "ok"), Env(ConvOk, SumOk, ClsOk, "oserror"),
            Env(ConvOk, SumOk, BackendReply("RuntimeError", << >>), "ok")}

\* the lists of files a scan may hand to process_files: sorted, each a file
SubLists == {<< >>, <<Paths[1]>>, <<Paths[1], Paths[2]>>}

\* ------------------------------------------------------------------------
\* State
\* ------------------------------------------------------------------------

VARIABLES
    cfg,      \* the resolved configuration of the installation
    files,    \* source tree: path -> content, NoFile where no file is
    tree,     \* output tree: file of the tree -> content
    rows,     \* table triage_results, in rowid order
    run,      \* the process_files call: status, files, position, summary
    last,     \* the latest process_file call: arguments, outcome, call log
              \* and the lines written with the logger of pipeline.py
    runs,     \* process_files calls so far
    arg,      \* the arguments of the function applied on its own
    ret       \* what it returned: << >> before the call, then <<value>>

\* the state of the pipeline
pvars == <<cfg, files, tree, rows, run, last, runs>>

\* the state of a function applied on its own
fvars == <<arg, ret>>

vars == <<pvars, fvars>>

NoRun ==
    [status |-> "idle", files |-> << >>, i |-> 1, dry_run |-> FALSE,
     summary |-> NewSummary(<< >>)]

NoCall ==
    [called |-> FALSE, path |-> None, dry_run |-> FALSE, raised |-> None,
     result |-> Result(None, 0, FALSE, None, NoDest), log |-> << >>,
     lines |-> << >>, rows_before |-> << >>, tree_before |-> << >>,
     content_before |-> NoFile, content_after |-> NoFile]

Init ==
    /\ cfg \in Configs
    /\ files = [p \in PathSet |-> "A"]
    /\ tree = << >>
    /\ rows = << >>
    /\ run = NoRun
    /\ last = NoCall
    /\ runs = 0
    /\ arg = << >>
    /\ ret = << >>

\* cli.run: scan_files, then process_files(files, cfg, dry_run); an empty
\* list returns the summary at once
StartBatch(fs, dry_run) ==
    /\ run.status # "running"
    /\ \A k \in DOMAIN fs : files[fs[k]] # NoFile
    /\ run' = [status |-> IF fs = << >> THEN "returned" ELSE "running",
               files |-> fs, i |-> 1, dry_run |-> dry_run,
               summary |-> NewSummary(fs)]
    /\ runs' = runs + 1
    /\ UNCHANGED <<cfg, files, tree, rows, last, fvars>>

\* one iteration of the loop of process_files: process_file on the next
\* file, then the summary counter; an exception leaves the loop and the
\* function, and after the last file the summary is returned
ProcessNext(env) ==
    /\ run.status = "running"
    /\ LET p == run.files[run.i]
           e == process_file(p, cfg, run.dry_run, rows, files[p], tree, env)
       IN  /\ rows' = e.rows
           /\ tree' = e.tree
           /\ files' = [files EXCEPT ![p] = e.content]
           /\ last' = [called |-> TRUE, path |-> p, dry_run |-> run.dry_run,
                       raised |-> e.raised, result |-> e.result,
                       log |-> SelectSeq(e.log, LAMBDA x : x.fn \notin LoggerFns),
                       lines |-> SelectSeq(e.log, LAMBDA x : x.fn \in LoggerFns),
                       rows_before |-> rows, tree_before |-> tree,
                       content_before |-> files[p], content_after |-> e.content]
           /\ run' = IF e.raised # None
                     THEN [run EXCEPT !.status = "raised"]
                     ELSE [run EXCEPT
                             !.summary = Count(@, e.result),
                             !.i = @ + 1,
                             !.status = IF run.i = Len(run.files)
                                        THEN "returned" ELSE "running"]
    /\ UNCHANGED <<cfg, runs, fvars>>

\* somebody writes a source file (creates it or changes its content)
WriteFile(p, content) ==
    /\ files[p] # content
    /\ files' = [files EXCEPT ![p] = content]
    /\ UNCHANGED <<cfg, tree, rows, run, last, runs, fvars>>

\* somebody removes a source file
DeleteFile(p) ==
    /\ files[p] # NoFile
    /\ files' = [files EXCEPT ![p] = NoFile]
    /\ UNCHANGED <<cfg, tree, rows, run, last, runs, fvars>>

\* Spec: runs over two files that are not written again but may vanish, in
\* every environment of Envs
StartRun(fs, dry_run) ==
    /\ runs < MaxRuns
    /\ StartBatch(fs, dry_run)

Next ==
    \/ \E fs \in SubLists, dry_run \in BOOLEAN : StartRun(fs, dry_run)
    \/ \E env \in Envs : ProcessNext(env)
    \/ \E p \in PathSet : DeleteFile(p)

Spec == Init /\ [][Next]_vars

\* SpecDedup: repeated runs over one file whose content changes between the
\* runs
StartDedup(dry_run) ==
    /\ runs < MaxDedupRuns
    /\ StartBatch(<<Paths[1]>>, dry_run)

NextDedup ==
    \/ \E dry_run \in BOOLEAN : StartDedup(dry_run)
    \/ \E env \in QuietEnvs : ProcessNext(env)
    \/ \E content \in Contents : WriteFile(Paths[1], content)
    \/ DeleteFile(Paths[1])

SpecDedup == Init /\ [][NextDedup]_vars

\* ------------------------------------------------------------------------
\* apply_threshold applied on its own
\* ------------------------------------------------------------------------

\* the largest confidence, in tenths
MaxConfidence == 10

TriageResults ==
    {TriageResult(t, x, r[1], r[2], e, raw) :
        t \in Classifications, x \in 0..MaxConfidence,
        r \in {<<"", << >>>>, <<"model reason", <<"topic">>>>},
        e \in {None, "CLI timed out"},
        raw \in {<< >>, <<<<NotJson>>>>}}

InitThreshold ==
    /\ cfg = Config("api", "openai", FALSE)
    /\ files = [p \in PathSet |-> "A"]
    /\ tree = << >>
    /\ rows = << >>
    /\ run = NoRun
    /\ last = NoCall
    /\ runs = 0
    /\ arg \in [result : TriageResults, threshold : 0..MaxConfidence]
    /\ ret = << >>

ApplyThreshold ==
    /\ ret = << >>
    /\ ret' = <<apply_threshold(arg.result, arg.threshold)>>
    /\ UNCHANGED <<pvars, arg>>

NextThreshold == ApplyThreshold

SpecThreshold == InitThreshold /\ [][NextThreshold]_vars

\* ------------------------------------------------------------------------
\* truncate_text applied on its own
\* ------------------------------------------------------------------------

\* the longest text
MaxTextLen == 26

\* the largest max_length
MaxTruncLength == 26

Alphabet ==
    <<"a", "b", "c", "d", "e", "f", "g", "h", "i", "j", "k", "l", "m", "n", "o",
      "p", "q", "r", "s", "t", "u", "v", "w", "x", "y", "z">>

\* the text of n characters: the alphabet, repeated
Text(n) == [i \in 1..n |-> Alphabet[((i - 1) % Len(Alphabet)) + 1]]

InitTruncate ==
    /\ cfg = Config("api", "openai", FALSE)
    /\ files = [p \in PathSet |-> "A"]
    /\ tree = << >>
    /\ rows = << >>
    /\ run = NoRun
    /\ last = NoCall
    /\ runs = 0
    /\ arg \in [text : {Text(n) : n \in 0..MaxTextLen}, max_length : 0..MaxTruncLength]
    /\ ret = << >>

TruncateText ==
    /\ ret = << >>
    /\ ret' = <<truncate_text(arg.text, arg.max_length)>>
    /\ UNCHANGED <<pvars, arg>>

NextTruncate == TruncateText

SpecTruncate == InitTruncate /\ [][NextTruncate]_vars

\* ------------------------------------------------------------------------
\* classify_document applied on its own
\* ------------------------------------------------------------------------

\* the arguments of classify_document and what the backend does when called
ClassifyArgs ==
    [text : {<< >>, <<"x", "y", "z">>}, truncated : BOOLEAN,
     mode : {"api", "cli"}, provider : {"openai", "claude", "codex", "gemini"},
     file_path : {None, Paths[1]}, reply : ClsReplies]

InitClassify ==
    /\ cfg = Config("api", "openai", FALSE)
    /\ files = [p \in PathSet |-> "A"]
    /\ tree = << >>
    /\ rows = << >>
    /\ run = NoRun
    /\ last = NoCall
    /\ runs = 0
    /\ arg \in ClassifyArgs
    /\ ret = << >>

ClassifyDocument ==
    /\ ret = << >>
    /\ ret' = <<classify_document(arg.text, arg.truncated, arg.mode, arg.provider,
                                  arg.file_path, arg.reply)>>
    /\ UNCHANGED <<pvars, arg>>

NextClassify == ClassifyDocument

SpecClassify == InitClassify /\ [][NextClassify]_vars

\* ------------------------------------------------------------------------
\* _parse_response applied on its own
\* ------------------------------------------------------------------------

\* the longest raw response, in tokens
MaxTokens == 3

\* the tokens of the raw responses
Tokens ==
    {Fence, Space, NotJson, JsonArray, EmptyObject, BadConfidence("evergreen")}
      \cup {JsonObject(k, 9) : k \in Classifications}

\* the raw responses of at most MaxTokens tokens
RawTexts == UNION {[1..n -> Tokens] : n \in 0..MaxTokens}

InitParse ==
    /\ cfg = Config("api", "openai", FALSE)
    /\ files = [p \in PathSet |-> "A"]
    /\ tree = << >>
    /\ rows = << >>
    /\ run = NoRun
    /\ last = NoCall
    /\ runs = 0
    /\ arg \in [raw : RawTexts]
    /\ ret = << >>

ParseResponse ==
    /\ ret = << >>
    /\ ret' = <<_parse_response(arg.raw)>>
    /\ UNCHANGED <<pvars, arg>>

NextParse == ParseResponse

SpecParse == InitParse /\ [][NextParse]_vars

\* ------------------------------------------------------------------------
\* move_file applied on its own, on an output tree that has files already
\* ------------------------------------------------------------------------

\* the highest suffix among the files the output tree has before the move
MaxSuffix == 3

\* the output tree that holds the destination's siblings with the suffixes ks
Siblings(triage, relative, ks) ==
    [d \in {Dest(triage, relative, k) : k \in ks} |-> "B"]

InitMove ==
    /\ cfg = Config("api", "openai", FALSE)
    /\ files = [p \in PathSet |-> "A"]
    /\ tree = << >>
    /\ rows = << >>
    /\ run = NoRun
    /\ last = NoCall
    /\ runs = 0
    /\ arg \in [relative : PathSet, triage : Categories,
                 existing : SUBSET (0..MaxSuffix)]
    /\ ret = << >>

MoveFile ==
    /\ ret = << >>
    /\ ret' = <<move_file(arg.relative, "A",
                          Siblings(arg.triage, arg.relative, arg.existing),
                          arg.triage, "ok")>>
    /\ UNCHANGED <<pvars, arg>>

NextMove == MoveFile

SpecMove == InitMove /\ [][NextMove]_vars

\* ------------------------------------------------------------------------
\* Properties
\* ------------------------------------------------------------------------

\* the rows of source_path, newest last
LatestRow(rs, source_path) == RowsOf(rs, source_path)[Len(RowsOf(rs, source_path))]

\* the rows the latest process_file call inserted
NewRows == SubSeq(rows, Len(last.rows_before) + 1, Len(rows))

\* the latest call returned (it did not raise) and was not skipped
Processed == last.called /\ last.raised = None /\ ~last.result.skipped

LogHas(fn) == \E i \in DOMAIN last.log : last.log[i].fn = fn

\* the latest call ran extract_text and it ended in one of kinds
Extracted(kinds) ==
    /\ last.called
    /\ last.log # << >>
    /\ last.log[1].fn = "extract_text"
    /\ last.log[1].note \in kinds

\* the backend functions of llm.py
Backends == {"call_api", "call_claude", "call_codex"}

\* the entries of the latest call log for the functions fns, in order
LogOf(fns) == SelectSeq(last.log, LAMBDA e : e.fn \in fns)

\* the positions of the latest call log where fn was called
At(fn) == {i \in DOMAIN last.log : last.log[i].fn = fn}

\* C1: a process_file call on a path whose latest record was written for the
\* content the file has now returns skipped = True and calls neither
\* extract_text nor an LLM backend.
C1_UnchangedFileSkipped ==
    (/\ last.called
     /\ last.content_before # NoFile
     /\ RowsOf(last.rows_before, last.path) # << >>
     /\ LatestRow(last.rows_before, last.path).checksum
            = compute_checksum(last.content_before))
    => (last.result.skipped /\ last.log = << >>)

\* C2: a process_file call on a path whose content differs from the content
\* its latest record was written for is not skipped and writes a new record.
C2_ChangedFileReprocessed ==
    (/\ last.called
     /\ last.content_before # NoFile
     /\ RowsOf(last.rows_before, last.path) # << >>
     /\ LatestRow(last.rows_before, last.path).checksum
            # compute_checksum(last.content_before))
    => (/\ ~last.result.skipped
        /\ last.raised = None => Len(rows) = Len(last.rows_before) + 1)

\* C3: a process_file call on an existing file that is not skipped as a
\* duplicate leaves exactly one new record in the table, whatever the
\* converter, the backend and the file system do; a skipped call leaves none.
C3_OneRecordPerCall ==
    (last.called /\ last.content_before # NoFile)
    => IF last.result.skipped
       THEN rows = last.rows_before
       ELSE /\ Len(rows) = Len(last.rows_before) + 1
            /\ SubSeq(rows, 1, Len(last.rows_before)) = last.rows_before

\* C4: with dry_run = True process_file does not call move_file: the source
\* file and the output tree are as before, every record it writes has
\* destination_path = None, and a call that is not skipped still classifies
\* (unless extraction ended it) and still writes its record.
C4_DryRunDoesNotMove ==
    (last.called /\ last.dry_run)
    => /\ tree = last.tree_before
       /\ last.content_after = last.content_before
       /\ ~LogHas("move_file")
       /\ last.result.destination_path = NoDest
       /\ \A i \in DOMAIN NewRows : NewRows[i].destination_path = NoDest
       /\ Processed =>
            /\ Len(NewRows) = 1
            /\ NewRows[1].triage = last.result.triage
            /\ ~Extracted({"error", "insufficient"}) => LogHas("classify_document")

C4_Witness ==
    /\ last.called /\ last.dry_run /\ Processed
    /\ last.result.triage = "evergreen"
    /\ Len(NewRows) = 1
    /\ NewRows[1].destination_path = NoDest
    /\ files[last.path] # NoFile

\* C5: a process_file call without dry-run whose move succeeds leaves the
\* file at output_dir/<triage after the threshold>/<relative path> (with a
\* collision suffix if that name was taken) and nowhere in the source tree;
\* the record's destination_path is that file and its triage that directory;
\* a classification below the threshold lands under unknown/.
C5_MovedToFinalCategory ==
    (Processed /\ ~last.dry_run /\ last.result.destination_path # NoDest)
    => LET d == last.result.destination_path
       IN  /\ d[1] = last.result.triage
           /\ d[2] = last.path
           /\ d = _resolve_destination(Dest(d[1], d[2], 0), DOMAIN last.tree_before)
           /\ d \notin DOMAIN last.tree_before
           /\ d \in DOMAIN tree
           /\ tree[d] = last.content_before
           /\ last.content_after = NoFile
           /\ Len(NewRows) = 1
           /\ NewRows[1].destination_path = d
           /\ NewRows[1].triage = d[1]
           /\ (last.result.error = None
                 /\ last.result.confidence < cfg.confidence_threshold)
              => d[1] = "unknown"

C5_Witness ==
    /\ Processed /\ ~last.dry_run
    /\ last.result.error = None
    /\ last.result.confidence = 3
    /\ last.result.destination_path = Dest("unknown", last.path, 0)
    /\ last.result.destination_path \in DOMAIN tree
    /\ files[last.path] = NoFile

\* C6: apply_threshold on a result without error, with a category other than
\* unknown and a confidence below the threshold returns category unknown and
\* leaves confidence, reason and topics as they were.
C6_BelowThresholdUnknown ==
    (/\ ret # << >>
     /\ arg.result.error = None
     /\ arg.result.triage # "unknown"
     /\ arg.result.confidence < arg.threshold)
    => /\ ret[1].triage = "unknown"
       /\ ret[1].confidence = arg.result.confidence
       /\ ret[1].reason = arg.result.reason
       /\ ret[1].topics = arg.result.topics

C6_Witness ==
    /\ ret # << >>
    /\ arg.result.error = None
    /\ arg.result.triage = "evergreen"
    /\ arg.result.confidence = 3
    /\ arg.threshold = 7
    /\ ret[1].triage = "unknown"
    /\ ret[1].confidence = 3

\* C7: apply_threshold returns its argument with every field unchanged when
\* the result has an error, or its category is unknown, or its confidence is
\* at least the threshold (equal included).
C7_OtherwiseUnchanged ==
    (/\ ret # << >>
     /\ \/ arg.result.error # None
        \/ arg.result.triage = "unknown"
        \/ arg.result.confidence >= arg.threshold)
    => ret[1] = arg.result

C7_Witness ==
    /\ ret # << >>
    /\ arg.result.error = None
    /\ arg.result.triage = "temporal"
    /\ arg.result.confidence = arg.threshold
    /\ arg.threshold = 7
    /\ ret[1] = arg.result

C9_InsufficientMoved ==
    (Extracted({"insufficient"}) /\ ~last.dry_run)
    => /\ last.content_after = NoFile
       /\ Dest("unknown", last.path, 0) \in DOMAIN tree

\* C10: an exception of process_file for one file does not end process_files:
\* the loop goes on with the next file and the summary is returned.
C10_BatchSurvivesException == run.status # "raised"

\* C11: every record of the table has triage evergreen, temporal or unknown,
\* and every file of the output tree lies in the directory of one of those
\* three categories, whatever the backend answered.
C11_TriageInEnum ==
    /\ \A i \in DOMAIN rows : rows[i].triage \in Categories
    /\ \A d \in DOMAIN tree : d[1] \in Categories

\* C12: the summary process_files returns has total = len(files) and
\* evergreen + temporal + unknown + error + skipped = total.
C12_SummaryAddsUp ==
    run.status = "returned"
    => /\ run.summary.total = Len(run.files)
       /\ run.summary.evergreen + run.summary.temporal + run.summary.unknown
            + run.summary.error + run.summary.skipped = run.summary.total

\* C13: for a text longer than max_length, the text truncate_text returns is
\* at most max_length characters long, marker included, also when max_length
\* is not larger than the marker's length.
C13_TruncatedFits ==
    (ret # << >> /\ Len(arg.text) > arg.max_length)
    => Len(ret[1].text) <= arg.max_length

\* C14: for a text of at most max_length characters (exactly max_length
\* included) truncate_text returns the text unchanged with truncated = False.
C14_ShortTextUnchanged ==
    (ret # << >> /\ Len(arg.text) <= arg.max_length)
    => (ret[1].text = arg.text /\ ret[1].truncated = FALSE)

C14_Witness ==
    /\ ret # << >>
    /\ arg.max_length = Len(_TRUNCATE_MARKER) + 1
    /\ Len(arg.text) = arg.max_length
    /\ ret[1] = TruncateResult(arg.text, FALSE)

\* C15: move_file never overwrites: the destination it picks did not exist
\* before the move; it is the plain name if that was free and otherwise the
\* name with the smallest suffix _k, k >= 1, that was free; every file the
\* output tree had before is still there with its content.
C15_NeverOverwrites ==
    (last.called /\ last.result.destination_path # NoDest)
    => LET d == last.result.destination_path
           before == DOMAIN last.tree_before
           free == {k \in 0..Cardinality(before) : Dest(d[1], d[2], k) \notin before}
       IN  /\ d \notin before
           /\ d[3] \in free
           /\ \A k \in free : d[3] <= k
           /\ d \in DOMAIN tree
           /\ tree[d] = last.content_before
           /\ \A f \in before : f \in DOMAIN tree /\ tree[f] = last.tree_before[f]

C15_Witness ==
    /\ last.called
    /\ last.result.destination_path = Dest("evergreen", Paths[1], 2)
    /\ Dest("evergreen", Paths[1], 0) \in DOMAIN last.tree_before
    /\ Dest("evergreen", Paths[1], 1) \in DOMAIN last.tree_before
    /\ tree[Dest("evergreen", Paths[1], 0)] = "A"
    /\ tree[Dest("evergreen", Paths[1], 1)] = "B"
    /\ tree[Dest("evergreen", Paths[1], 2)] = "B"

\* C16: summarize_text dispatches exactly one LLM call (which executes at
\* most one backend function); when that call raises, or returns an empty or
\* white-space-only text, the summary is the input text with an error that is
\* not None, and process_file goes on to classify_document with that text.
C16_SummaryFallback ==
    \A i \in At("summarize_text") :
        /\ At("classify_document") # {}
        /\ \A j \in At("classify_document") :
             LET between == SubSeq(last.log, i + 1, j - 1)
                 call == between[1]
             IN  /\ i < j
                 /\ between # << >>
                 /\ call.fn = "_call_llm"
                 /\ \A k \in 2..Len(between) :
                        /\ k = 2
                        /\ between[k].fn \in Backends
                        /\ between[k].note = "summary.txt"
                        /\ between[k].text = last.log[i].text
                 /\ (call.note # None \/ Strip(call.raw) = << >>)
                    => /\ last.log[i].note # None
                       /\ last.log[j].text = last.log[i].text

C16_Witness ==
    /\ Processed
    /\ last.result.triage = "evergreen"
    /\ \E i \in At("summarize_text"), j \in At("classify_document") :
         /\ last.log[i + 1].fn = "_call_llm"
         /\ last.log[i + 1].note = None
         /\ last.log[i + 1].raw # << >>
         /\ Strip(last.log[i + 1].raw) = << >>
         /\ last.log[i].note # None
         /\ last.log[j].text = <<"x", "y", "z">>

\* C17: when the LLM call inside classify_document fails (unsupported CLI
\* provider, command not found, timeout, non-zero exit, any other exception),
\* process_file does not raise: it records the file with triage unknown,
\* confidence 0.0 and an error that is not None, and the batch goes on.
C17_ClassifyFailureRecorded ==
    \A j \in At("classify_document") :
        (last.log[j + 1].fn = "_call_llm" /\ last.log[j + 1].note # None)
        => /\ last.raised = None
           /\ run.status # "raised"
           /\ last.result.error # None
           /\ last.result.triage = "unknown"
           /\ last.result.confidence = 0
           /\ Len(NewRows) = 1
           /\ NewRows[1].triage = "unknown"
           /\ NewRows[1].confidence = 0
           /\ NewRows[1].error_message # None

C17_Witness ==
    /\ Processed
    /\ cfg.provider = "gemini"
    /\ \E j \in At("classify_document") : last.log[j + 1].note = "ValueError"
    /\ Len(NewRows) = 1
    /\ NewRows[1].triage = "unknown"
    /\ NewRows[1].error_message = "unsupported CLI provider"
    /\ run.status = "running"

\* C18: with mode = cli and provider = claude a process_file call that is not
\* skipped calls neither extract_text, truncate_text nor summarize_text: its
\* first call is the one classify_document call, with empty text and the
\* file-reference prompt, and its record has extracted_text_length = 0 and
\* truncated = False; with any other configuration it calls extract_text
\* first.
C18_FileDirectSkipsExtraction ==
    (last.called /\ ~last.result.skipped /\ last.content_before # NoFile)
    => IF cfg.mode = "cli" /\ cfg.provider = "claude"
       THEN /\ LogOf({"extract_text", "truncate_text", "summarize_text"}) = << >>
            /\ last.log # << >>
            /\ last.log[1] = Event("classify_document", "classify_file.txt", << >>)
            /\ Cardinality(At("classify_document")) = 1
            /\ last.raised = None => Len(NewRows) = 1
            /\ \A i \in DOMAIN NewRows :
                 /\ NewRows[i].extracted_text_length = 0
                 /\ NewRows[i].truncated = FALSE
       ELSE /\ last.log # << >>
            /\ last.log[1].fn = "extract_text"

C18_Witness ==
    /\ Processed
    /\ cfg.mode = "cli" /\ cfg.provider = "claude"
    /\ last.log[1].fn = "classify_document"
    /\ Len(NewRows) = 1
    /\ NewRows[1].extracted_text_length = 0
    /\ NewRows[1].truncated = FALSE

\* C19: classify_document in cli mode with provider claude and a file
\* reference sends the file-reference prompt to the claude backend (the
\* dispatch passes prompt, model and timeout and no file_path, so the backend
\* is executed), and when the backend returns a valid payload the outcome has
\* error = None and the payload's classification.
C19_ClaudeFileDispatch ==
    (/\ ret # << >>
     /\ arg.mode = "cli" /\ arg.provider = "claude" /\ arg.file_path # None)
    => /\ ret[1].prompt.template = "classify_file.txt"
       /\ ret[1].call.backend = "call_claude"
       /\ ret[1].call.raised = arg.reply.raises
       /\ \A k \in Classifications :
            (arg.reply.raises = None /\ arg.reply.raw = <<JsonObject(k, 9)>>)
            => /\ ret[1].outcome.raised = None
               /\ ret[1].outcome.value.error = None
               /\ ret[1].outcome.value.triage = k

\* C20: a process_file call whose extraction found sufficient text dispatches
\* two LLM calls when llm_summary_enabled is set, the summarization first and
\* the classification second, and one, the classification, when it is not;
\* with a supported provider each dispatch executes the backend once.
C20_BackendCallCount ==
    (last.called /\ Extracted({"ok"}))
    => LET calls == LogOf({"_call_llm"})
           backends == LogOf(Backends)
           supported == cfg.mode = "api" \/ cfg.provider \in {"claude", "codex"}
       IN  /\ Cardinality(At("classify_document")) = 1
           /\ \A j \in At("classify_document") : last.log[j + 1].fn = "_call_llm"
           /\ IF cfg.llm_summary_enabled
              THEN /\ Len(calls) = 2
                   /\ Cardinality(At("summarize_text")) = 1
                   /\ \A i \in At("summarize_text") :
                        /\ last.log[i + 1].fn = "_call_llm"
                        /\ \A j \in At("classify_document") : i < j
                   /\ supported =>
                        /\ Len(backends) = 2
                        /\ backends[1].note = "summary.txt"
                        /\ backends[2].note = "classify.txt"
              ELSE /\ Len(calls) = 1
                   /\ At("summarize_text") = {}
                   /\ supported =>
                        /\ Len(backends) = 1
                        /\ backends[1].note = "classify.txt"

C20_Witness ==
    /\ Processed
    /\ Extracted({"ok"})
    /\ cfg.llm_summary_enabled
    /\ Len(LogOf(Backends)) = 2
    /\ LogOf(Backends)[1] = Event("call_api", "summary.txt", <<"x", "y", "z">>)
    /\ LogOf(Backends)[2] = Event("call_api", "classify.txt", <<"s">>)

\* C21: a process_file call that classifies a file writes a log line with the
\* CLI command exactly when dry_run is True and the LLM mode is cli.
C21_DryRunLogsCommand ==
    Processed
    => ((\E i \in DOMAIN last.lines : last.lines[i].note = "command")
          <=> (last.dry_run /\ cfg.mode = "cli"))

\* C22: the skip decision of process_file rests on the most recently written
\* record of the path: the call is skipped, and writes no record, exactly when
\* the path has a record and the newest one has the checksum of the file as
\* it is now.
C22_LatestRecordDecides ==
    (last.called /\ last.content_before # NoFile)
    => LET mine == RowsOf(last.rows_before, last.path)
           seen == /\ mine # << >>
                   /\ mine[Len(mine)].checksum = compute_checksum(last.content_before)
       IN  /\ last.result.skipped <=> seen
           /\ seen => rows = last.rows_before

\* C23: the table is append-only: every step leaves each record that was in
\* the table where it was, with every field unchanged; reprocessing a path
\* after a change of content adds a record.
C23_AppendOnly ==
    [][/\ Len(rows') >= Len(rows)
       /\ SubSeq(rows', 1, Len(rows)) = rows]_vars

C23_Witness ==
    /\ last.called
    /\ Len(rows) = 2
    /\ Len(last.rows_before) = 1
    /\ rows[1] = last.rows_before[1]
    /\ rows[1].source_path = rows[2].source_path
    /\ rows[1].checksum = compute_checksum("A")
    /\ rows[2].checksum = compute_checksum("B")

\* C24: when move_file fails in a call without dry-run (the source vanished
\* after the checksum was taken, or the move itself failed), process_file
\* does not raise: it writes the record with the category after the threshold
\* and destination_path = None, and returns that category.
C24_MoveFailureRecorded ==
    (/\ last.called
     /\ LogHas("move_file")
     /\ tree = last.tree_before)
    => /\ last.raised = None
       /\ ~last.dry_run
       /\ last.result.destination_path = NoDest
       /\ Len(NewRows) = 1
       /\ NewRows[1].destination_path = NoDest
       /\ NewRows[1].triage = last.result.triage
       /\ NewRows[1].confidence = last.result.confidence
       /\ \E i \in DOMAIN last.log :
            /\ last.log[i].fn = "move_file"
            /\ last.log[i].note = last.result.triage
       /\ (last.result.error = None
             /\ last.result.confidence < cfg.confidence_threshold)
          => last.result.triage = "unknown"
       /\ \E i \in DOMAIN last.lines : last.lines[i].note = "file move failed"

C24_Witness ==
    /\ last.called /\ ~last.dry_run /\ last.raised = None
    /\ LogHas("move_file")
    /\ last.content_before = "A"
    /\ last.content_after = NoFile
    /\ tree = last.tree_before
    /\ Len(NewRows) = 1
    /\ NewRows[1].triage = "evergreen"
    /\ NewRows[1].destination_path = NoDest
    /\ run.status # "raised"

\* C25: for a text longer than max_length truncate_text returns head, marker
\* and tail, where with available = max_length - len(marker) the head is the
\* first floor(2 * available / 3) characters of the text and the tail its
\* last available - len(head) characters (no character when that is 0).
C25_HeadMarkerTail ==
    (ret # << >> /\ Len(arg.text) > arg.max_length)
    => LET n == Len(arg.text)
           available == arg.max_length - Len(_TRUNCATE_MARKER)
           head_len == Max((available * 2) \div 3, 0)
           tail_len == Max(available - (available * 2) \div 3, 0)
       IN  /\ ret[1].truncated
           /\ ret[1].text = SubSeq(arg.text, 1, Min(head_len, n))
                               \o _TRUNCATE_MARKER
                               \o SubSeq(arg.text, n - Min(tail_len, n) + 1, n)

\* C26: _parse_response never raises.  For a payload that is one JSON object
\* with a numeric or absent confidence it returns the result built from the
\* payload's members, with unknown / 0.0 / empty reason / empty topics for the
\* absent ones; for every other response (text that is not JSON, JSON that is
\* not an object, a confidence that is not a number) it returns category
\* unknown with an error and raw_response = the response.
C26_ParserNeverRaises ==
    ret # << >>
    => LET json_str == _extract_json(arg.raw)
           usable == /\ Len(json_str) = 1
                     /\ json_str[1].t = "object"
                     /\ json_str[1].has_confidence => json_str[1].conf_numeric
           data == json_str[1]
       IN  /\ ret[1].raised = None
           /\ IF usable
              THEN /\ ret[1].value.error = None
                   /\ ret[1].value.triage
                        = (IF data.has_classification THEN data.classification
                           ELSE "unknown")
                   /\ ret[1].value.confidence
                        = (IF data.has_confidence THEN data.confidence ELSE 0)
                   /\ ~data.has_reason =>
                        (ret[1].value.reason = "" /\ ret[1].value.topics = << >>)
              ELSE /\ ret[1].value.triage = "unknown"
                   /\ ret[1].value.error # None
                   /\ ret[1].value.raw_response = <<arg.raw>>

\* C27, as stated: when the plain name is taken, move_file picks a suffix
\* above every suffix its siblings have, so a gap below the highest suffix is
\* not reused (name.ext and name_2.ext present: not name_1.ext).
C27_GapNotReused ==
    (ret # << >> /\ 0 \in arg.existing)
    => \A k \in arg.existing : ret[1].dest[3] > k

\* C27, amended: move_file picks the plain name if it is free and otherwise
\* the smallest suffix k >= 1 whose name is free, whatever higher suffixes
\* exist: a gap below the highest suffix is reused (name.ext and name_2.ext
\* present: name_1.ext), and no file that was there is replaced.
C27_SmallestFreeSuffix ==
    ret # << >>
    => LET k == ret[1].dest[3]
           before == Siblings(arg.triage, arg.relative, arg.existing)
       IN  /\ ret[1].raised = None
           /\ ret[1].dest = Dest(arg.triage, arg.relative, k)
           /\ k \notin arg.existing
           /\ \A j \in 0..(k - 1) : j \in arg.existing
           /\ ret[1].tree[ret[1].dest] = "A"
           /\ \A d \in DOMAIN before : ret[1].tree[d] = before[d]

C27_Witness ==
    /\ ret # << >>
    /\ arg.existing = {0, 2}
    /\ ret[1].dest = Dest(arg.triage, arg.relative, 1)
    /\ DOMAIN ret[1].tree = {Dest(arg.triage, arg.relative, k) : k \in 0..2}

\* C28: every record of the table whose error_message is not None has triage
\* unknown and confidence 0.0.
C28_ErrorMeansUnknown ==
    \A i \in DOMAIN rows :
        rows[i].error_message # None
        => (rows[i].triage = "unknown" /\ rows[i].confidence = 0)

C28_Witness ==
    /\ Len(rows) = 2
    /\ rows[1].error_message = "convert failed"
    /\ rows[2].error_message = "CLI timed out"
    /\ rows[2].triage = "unknown"
    /\ rows[2].confidence = 0
    /\ rows[2].destination_path = Dest("unknown", rows[2].source_path, 0)

\* C29: once the table has a record of the path with the checksum the file
\* has now, a process_file call on the file, dry-run or not, is skipped: it
\* moves nothing and leaves the file in the source tree.
C29_RecordedFileStays ==
    (/\ last.called
     /\ last.content_before # NoFile
     /\ \E i \in DOMAIN last.rows_before :
          /\ last.rows_before[i].source_path = last.path
          /\ last.rows_before[i].checksum = compute_checksum(last.content_before))
    => /\ last.result.skipped
       /\ ~LogHas("move_file")
       /\ last.content_after = last.content_before
       /\ tree = last.tree_before

\* C30: for each file process_files adds one to exactly one counter of the
\* summary: skipped for a skipped file, else error for a result whose error
\* is not None, else the counter of the result's triage.
C30_OneCounterPerFile ==
    [][(run.status = "running" /\ run'.i = run.i + 1)
       => LET r == last'.result
              key == IF r.skipped THEN "skipped"
                     ELSE IF r.error # None THEN "error"
                     ELSE r.triage
          IN  /\ key \in {"evergreen", "temporal", "unknown", "error", "skipped"}
              /\ run'.summary = [run.summary EXCEPT ![key] = @ + 1]]_vars

====
